---- MODULE Spec2Model ----
(***************************************************************************)
(* A model of models/memory_modules.py: the TreeMemory module.             *)
(*                                                                         *)
(* One TreeMemory instance is modelled.  Tensors are modelled for a single *)
(* batch element (B = 1): the tree shape and the masks do not depend on    *)
(* the batch axis.  A level of the tree level table is a record            *)
(*   [shape |-> the axes between the batch axis and the last axis,         *)
(*    mask  |-> the level's mask, flattened in row-major order]            *)
(* The embeddings of the aggregated levels are produced by the external    *)
(* TransformerAggregator and are represented by their shape only.          *)
(* Scalars are integers; the running mean and the losses are exact         *)
(* rationals <<numerator, denominator>>.                                   *)
(***************************************************************************)
EXTENDS Integers, Sequences, FiniteSets, TLC

(***************************************************************************)
(* Bounds of the model.  DModel is the embedding width D and NQueries the  *)
(* number M of queries of a call; MaxRecords bounds the number of losses   *)
(* recorded per level; PadMaxN and PadMaxB bound the arguments of          *)
(* pad_node_data when it is checked on its own.                            *)
(***************************************************************************)
MaxN == 5
MaxB == 3
MaxRecords == 2
DModel == 2
NQueries == 1
PadMaxN == 30
PadMaxB == 4

(***************************************************************************)
(* Program constants.                                                      *)
(***************************************************************************)
NumMlps == 6
\* the range of the 32-bit integer that .int() converts to (lines 146, 179)
IntMax == 2147483647
IntMin == -IntMax - 1

AggregatorTypes == {"transformer", "other"}
Seeds == {1, 2}
QueryPatterns == {1, 2}
FreshPatterns == {0, 1, 2}
RandPatterns == {<<1, 2>>, <<2, 1>>}
DeepItemCounts == {65, 129}

(***************************************************************************)
(* Arithmetic helpers.                                                     *)
(***************************************************************************)
RECURSIVE Sum(_, _)
Sum(f, n) == IF n = 0 THEN 0 ELSE f[n] + Sum(f, n - 1)

RECURSIVE GCD(_, _)
GCD(a, b) == IF b = 0 THEN a ELSE GCD(b, a % b)

Abs(x) == IF x < 0 THEN -x ELSE x

\* a rational in lowest terms with a positive denominator
Rat(n, d) ==
    LET g == GCD(Abs(n), d) IN <<n \div g, d \div g>>

RatAdd(x, y) == Rat(x[1] * y[2] + y[1] * x[2], x[2] * y[2])

RatSub(x, y) == Rat(x[1] * y[2] - y[1] * x[2], x[2] * y[2])

RatDivInt(x, c) == Rat(x[1], x[2] * c)

\* b ** k of Python for an int b >= 0 and an int k >= 0 (0 ** 0 = 1)
RECURSIVE IntPow(_, _)
IntPow(b, k) == IF b = 1 \/ k = 0 THEN 1 ELSE b * IntPow(b, k - 1)

\* the largest k with b^k <= n, for n >= 1 and b >= 2
RECURSIVE FloorLog(_, _)
FloorLog(n, b) == IF n < b THEN 0 ELSE 1 + FloorLog(n \div b, b)

Ones == [d \in 1..DModel |-> 1]

Reverse(s) == [j \in 1..Len(s) |-> s[Len(s) + 1 - j]]

(***************************************************************************)
(* Tree shape: lines 141-149 and 174-182.                                  *)
(*   k = floor(log(N - 1) / log(b)).int().item()                           *)
(* The logarithms are float32.  For N >= 2 and b >= 2 the quotient is      *)
(* finite and its floor is the exact floor of log_b(N - 1) (the float32    *)
(* quotient of the two rounded logarithms was recomputed for every N up to *)
(* 3000 and b up to 7).  Otherwise the quotient is -0.0, an infinity or    *)
(* NaN, and the conversion of a non-finite float to a 32-bit integer is    *)
(* undefined: the outcomes are those of the x86 and the AArch64            *)
(* conversion instructions.                                                *)
(***************************************************************************)
LogQuotient(N, b) ==
    IF b >= 2 THEN (IF N = 1 THEN "-inf" ELSE "finite")
    ELSE IF b = 1 THEN (IF N = 1 THEN "-inf" ELSE IF N = 2 THEN "nan" ELSE "+inf")
    ELSE (IF N = 1 THEN "nan" ELSE "-0.0")

ResolveK(N, b) ==
    LET q == LogQuotient(N, b) IN
    IF q = "finite" THEN {FloorLog(N - 1, b)}
    ELSE IF q = "-0.0" THEN {0}
    ELSE IF q = "-inf" THEN {IntMin}
    ELSE IF q = "+inf" THEN {IntMin, IntMax}
    ELSE {IntMin, 0}

\* P = math.ceil(N / b ** k): the error it raises, or "" (line 149 / 182).
\* A negative k makes b ** k a float: 0 ** k raises, b ** IntMin
\* underflows to 0.0 for b >= 2 (N / 0.0 raises) and is 1.0 for b = 1.
ResolveError(N, b, k) ==
    IF k < 0 THEN (IF b = 1 THEN "" ELSE "ZeroDivisionError")
    ELSE IF IntPow(b, k) = 0 THEN "ZeroDivisionError"
    ELSE ""

\* a variant of ResolveP: N // b ** k in place of math.ceil(N / b ** k)
ResolvePFloor(N, b, k) ==
    IF k < 0 THEN N
    ELSE N \div IntPow(b, k)

ResolveP(N, b, k) ==
    IF k < 0 THEN N
    ELSE (N + IntPow(b, k) - 1) \div IntPow(b, k)

(***************************************************************************)
(* pad_node_data, lines 135-164.  The result is                            *)
(*   [err |-> the error raised or "", data, mask]                          *)
(* data[j] = <<item, offset>>: a copy of item `item`, plus 1e-5 when       *)
(* offset = 1.                                                             *)
(***************************************************************************)
NumPadNodes(N, b, k) == ResolveP(N, b, k) * IntPow(b, k) - N

pad_node_data(N, b, k) ==
    LET num_pad_nodes == NumPadNodes(N, b, k)
        len == N + num_pad_nodes
    IN  IF ResolveError(N, b, k) # "" THEN
            [err |-> ResolveError(N, b, k), data |-> <<>>, mask |-> <<>>]
        ELSE IF k < 0 THEN
            \* num_pad_nodes is the float 0.0: torch.zeros(B, N + 0.0, D)
            [err |-> "TypeError", data |-> <<>>, mask |-> <<>>]
        ELSE IF num_pad_nodes > N THEN
            \* node_data[:, :num_pad_nodes] has only N rows
            [err |-> "RuntimeError", data |-> <<>>, mask |-> <<>>]
        ELSE
            [err |-> "",
             data |-> [j \in 1..len |->
                          IF j <= N THEN <<j, 0>> ELSE <<j - N, 1>>],
             mask |-> [j \in 1..len |->
                          IF j <= N THEN 1 ELSE 0]]

(***************************************************************************)
(* bottom_up_aggregation, lines 195-231.                                   *)
(***************************************************************************)
\* a variant of AnyChildren: .all(dim=-2) in place of .any(dim=-2)
AllChildren(mask, branch_size) ==
    [g \in 1..(Len(mask) \div branch_size) |->
        IF \A j \in 1..branch_size : mask[(g - 1) * branch_size + j] = 1
        THEN 1 ELSE 0]

\* tmp_tree_depth_mask.any(dim=-2).float(), lines 218-220
AnyChildren(mask, branch_size) ==
    [g \in 1..(Len(mask) \div branch_size) |->
        IF \E j \in 1..branch_size : mask[(g - 1) * branch_size + j] = 1
        THEN 1 ELSE 0]

\* the while loop of lines 201-229; len(tensor.shape) = Len(shape) + 2
RECURSIVE AggregationLoop(_, _, _)
AggregationLoop(acc, shape, mask) ==
    IF Len(shape) + 2 > 2 THEN
        LET branch_size == shape[Len(shape)]
            new_shape == SubSeq(shape, 1, Len(shape) - 1)
            new_mask == AnyChildren(mask, branch_size)
        IN  AggregationLoop(Append(acc, [shape |-> new_shape, mask |-> new_mask]),
                            new_shape, new_mask)
    ELSE acc

\* a variant of bottom_up_aggregation: the final reversal is left out
bottom_up_aggregation_unreversed(shape, mask) ==
    AggregationLoop(<<[shape |-> shape, mask |-> mask]>>, shape, mask)

bottom_up_aggregation(shape, mask) ==
    Reverse(AggregationLoop(<<[shape |-> shape, mask |-> mask]>>, shape, mask))

(***************************************************************************)
(* tree_generator, lines 166-193.  The result is [err, tree].              *)
(***************************************************************************)
\* [b] * k followed by P: the axes of the reshaped leaves, lines 188-191
LeafShape(b, k, P) ==
    [j \in 1..((IF k < 0 THEN 0 ELSE k) + 1) |-> IF j <= k THEN b ELSE P]

RECURSIVE Prod(_, _)
Prod(s, n) == IF n = 0 THEN 1 ELSE s[n] * Prod(s, n - 1)

tree_generator(N, b, k) ==
    LET P == ResolveP(N, b, k)
        padded == pad_node_data(N, b, k)
    IN  IF ResolveError(N, b, k) # "" THEN
            [err |-> ResolveError(N, b, k), tree |-> <<>>]
        ELSE IF padded.err # "" THEN
            [err |-> padded.err, tree |-> <<>>]
        ELSE IF k = IntMax THEN
            \* [b] * k is a list of 2^31 - 1 axes
            [err |-> "MemoryError", tree |-> <<>>]
        ELSE IF Prod(LeafShape(b, k, P), Len(LeafShape(b, k, P))) # Len(padded.mask) THEN
            [err |-> "RuntimeError", tree |-> <<>>]
        ELSE
            [err |-> "",
             tree |-> bottom_up_aggregation(LeafShape(b, k, P), padded.mask)]

(***************************************************************************)
(* The state of one TreeMemory instance and of the retrieve call in        *)
(* progress.                                                               *)
(***************************************************************************)
VARIABLES
    constructed,                \* __init__ has returned an instance
    branch_factor,              \* self.branch_factor
    mlps,                       \* self.mlps: the six estimators' weights
    mean_mlp_loss,              \* self.mean_mlp_loss: i -> <<count, mean>>
    train_tree_data,            \* self.train_tree_data
    training,                   \* self.training
    pc,                         \* position of the retrieve call
    i,                          \* loop variable of tree_retrieval
    query_data,
    selected_data_embeddings,
    selected_data_masks,
    entropy_att_scores_list,
    log_branch_sel_prob_list,
    outcome,                    \* how the last operation ended
    recorded,                   \* history: i -> <<number, sum>> of the losses recorded
    last_inference,             \* history: the last inference retrieval that finished
    padded                      \* the input and the result of a pad_node_data call

vars == <<constructed, branch_factor, mlps, mean_mlp_loss, train_tree_data,
          training, pc, i, query_data, selected_data_embeddings,
          selected_data_masks, entropy_att_scores_list,
          log_branch_sel_prob_list, outcome, recorded, last_inference, padded>>

call_vars == <<pc, i, query_data, selected_data_embeddings, selected_data_masks,
               entropy_att_scores_list, log_branch_sel_prob_list>>

Levels == 0..(NumMlps - 1)

NoOutcome == [op |-> "none", result |-> "none", N |-> 0, training |-> FALSE, built |-> FALSE]

Ended(op, result, N) ==
    [op |-> op, result |-> result, N |-> N, training |-> training,
     built |-> train_tree_data # <<>>]

NoInference == [valid |-> FALSE, query |-> <<>>, tree |-> <<>>,
                embeddings |-> <<>>, masks |-> <<>>]

\* nn.Linear(64, 64, bias=False) for _ in range(6), randomly initialised (line 85)
InitialMlps(seed) ==
    [l \in Levels |->
        [r \in 1..DModel |-> [c \in 1..DModel |-> ((seed + l + r + 2 * c) % 3) - 1]]]

\* self.mean_mlp_loss = {i: (0, 0.0) for i in range(6)} (line 86)
InitialMeanMlpLoss == [l \in Levels |-> <<0, <<0, 1>>>>]

\* a [M, D] query tensor
Query(p) == [m \in 1..NQueries |-> [d \in 1..DModel |-> ((p * (m + d)) % 3) - 1]]

\* the weight and bias of a freshly initialised nn.Linear(M, 1) (line 273)
FreshLinear(f) ==
    [weight |-> [m \in 1..NQueries |-> ((f + m) % 3) - 1],
     bias |-> ((2 * f + 1) % 3) - 1]

InitInstance ==
    /\ constructed = FALSE
    /\ branch_factor = 0
    /\ mlps = <<>>
    /\ mean_mlp_loss = InitialMeanMlpLoss
    /\ train_tree_data = <<>>
    /\ training = TRUE
    /\ pc = "idle"
    /\ i = 0
    /\ query_data = <<>>
    /\ selected_data_embeddings = <<>>
    /\ selected_data_masks = <<>>
    /\ entropy_att_scores_list = <<>>
    /\ log_branch_sel_prob_list = <<>>
    /\ outcome = NoOutcome
    /\ recorded = [l \in Levels |-> <<0, <<0, 1>>>>]
    /\ last_inference = NoInference

Init ==
    /\ InitInstance
    /\ padded = [N |-> 0, b |-> 0, done |-> FALSE, out |-> <<>>]

(***************************************************************************)
(* __init__, lines 72-125.  An unsupported aggregator_type raises          *)
(* NotImplementedError; branch_factor is stored as given.                  *)
(***************************************************************************)
Construct(b, aggregator_type, seed) ==
    /\ ~constructed
    /\ IF aggregator_type = "transformer"
       THEN /\ constructed' = TRUE
            /\ branch_factor' = b
            /\ mlps' = InitialMlps(seed)
            /\ mean_mlp_loss' = InitialMeanMlpLoss
            /\ train_tree_data' = <<>>
            /\ outcome' = Ended("__init__", "ok", 0)
       ELSE /\ outcome' = Ended("__init__", "NotImplementedError", 0)
            /\ UNCHANGED <<constructed, branch_factor, mlps, mean_mlp_loss,
                           train_tree_data>>
    /\ UNCHANGED <<training, call_vars, recorded, last_inference, padded>>

(***************************************************************************)
(* setup_data, lines 128-129.                                              *)
(***************************************************************************)
SetupData(N) ==
    /\ constructed
    /\ pc = "idle"
    /\ \E k \in ResolveK(N, branch_factor) :
         LET built == tree_generator(N, branch_factor, k) IN
         IF built.err = ""
         THEN /\ train_tree_data' = built.tree
              /\ outcome' = [Ended("setup_data", "ok", N) EXCEPT !.built = TRUE]
         ELSE /\ outcome' = Ended("setup_data", built.err, N)
              /\ UNCHANGED train_tree_data
    /\ UNCHANGED <<constructed, branch_factor, mlps, mean_mlp_loss, training,
                   call_vars, recorded, last_inference, padded>>

(***************************************************************************)
(* reset, lines 131-133.                                                   *)
(***************************************************************************)
Reset ==
    /\ constructed
    /\ pc = "idle"
    /\ train_tree_data' = <<>>
    /\ outcome' = [Ended("reset", "ok", 0) EXCEPT !.built = FALSE]
    /\ UNCHANGED <<constructed, branch_factor, mlps, mean_mlp_loss, training,
                   call_vars, recorded, last_inference, padded>>

(***************************************************************************)
(* nn.Module.train() and nn.Module.eval(): they set self.training, which   *)
(* retrieve and tree_retrieval read (lines 246, 318, 351, 375).            *)
(***************************************************************************)
SetTraining(mode) ==
    /\ constructed
    /\ pc = "idle"
    /\ training # mode
    /\ training' = mode
    /\ UNCHANGED <<constructed, branch_factor, mlps, mean_mlp_loss,
                   train_tree_data, call_vars, outcome, recorded,
                   last_inference, padded>>

(***************************************************************************)
(* use_mlps, lines 261-280, for one batch element.  `fresh` is the         *)
(* nn.Linear(M, 1) that line 273 creates on every call.  The result is the *)
(* [1, b] row of scores.                                                   *)
(***************************************************************************)
use_mlps(l, q, layer_data_embeddings, fresh) ==
    LET projected == [n \in 1..Len(layer_data_embeddings) |->
                        [r \in 1..DModel |->
                            Sum([c \in 1..DModel |->
                                    mlps[l][r][c] * layer_data_embeddings[n][c]], DModel)]]
        decision == [n \in 1..Len(layer_data_embeddings) |->
                        [m \in 1..NQueries |->
                            Sum([d \in 1..DModel |-> projected[n][d] * q[m][d]], DModel)]]
    IN  [n \in 1..Len(layer_data_embeddings) |->
            Sum([m \in 1..NQueries |-> fresh.weight[m] * decision[n][m]], NQueries)
            + fresh.bias]

\* a variant of track_mlp_loss: the mean is updated with count + 1
track_mlp_loss_next_count(stats, l, loss) ==
    LET count == stats[l][1] + 1
        mean == RatAdd(stats[l][2], RatDivInt(RatSub(loss, stats[l][2]), count + 1))
    IN  [stats EXCEPT ![l] = <<count, mean>>]

\* track_mlp_loss, lines 282-287
track_mlp_loss(stats, l, loss) ==
    LET count == stats[l][1] + 1
        mean == RatAdd(stats[l][2], RatDivInt(RatSub(loss, stats[l][2]), count))
    IN  [stats EXCEPT ![l] = <<count, mean>>]

\* F.mse_loss over the B * 1 * 2 = 2 scores of the level (line 335)
mse_loss(target, decision) ==
    Rat((target[1] - decision[1]) * (target[1] - decision[1])
        + (target[2] - decision[2]) * (target[2] - decision[2]), 2)

\* a variant of LayerDataEmbeddings: two children with different embeddings
DistinctChildEmbeddings == <<Ones, [d \in 1..DModel |-> 0]>>

\* torch.ones(B, 2, D) and torch.ones(B, 2, 1), lines 307-308
LayerDataEmbeddings == <<Ones, Ones>>

LayerDataMask == <<1, 1>>

\* .max(-1)[1]: the index of the first maximal score (line 356)
GreedyIndex(weights) == IF weights[2] > weights[1] THEN 1 ELSE 0

\* lines 351-356: torch.multinomial draws `sample` while training
SelectedIndex(is_training, weights, sample) ==
    IF is_training THEN sample ELSE GreedyIndex(weights)

\* a variant of IsLastLevel: the comparison is off by one
IsPastLastLevel(level, filtered_tree_data) == level = Len(filtered_tree_data)

\* if i == len(filtered_tree_data) - 1 (line 310)
IsLastLevel(level, filtered_tree_data) == level = Len(filtered_tree_data) - 1

\* torch.cat(..., dim=1), lines 388-389
RECURSIVE Cat(_, _)
Cat(list, n) == IF n = 0 THEN <<>> ELSE Cat(list, n - 1) \o list[n]

ClearCall ==
    /\ pc' = "idle"
    /\ i' = 0
    /\ query_data' = <<>>
    /\ selected_data_embeddings' = <<>>
    /\ selected_data_masks' = <<>>
    /\ entropy_att_scores_list' = <<>>
    /\ log_branch_sel_prob_list' = <<>>

(***************************************************************************)
(* retrieve, lines 233-239, up to the first iteration of tree_retrieval    *)
(* (lines 289-302).  While training, a call is started only while every    *)
(* level has room for another recorded loss (the bound MaxRecords).        *)
(***************************************************************************)
RetrieveBegin(p) ==
    /\ constructed
    /\ pc = "idle"
    /\ training => \A l \in Levels : mean_mlp_loss[l][1] < MaxRecords
    /\ IF train_tree_data = <<>>
       THEN \* self.train_tree_data[0] (line 294)
            /\ outcome' = Ended("retrieve", "IndexError", 0)
            /\ UNCHANGED call_vars
       ELSE /\ pc' = IF Len(Tail(train_tree_data)) > 0 THEN "loop" ELSE "aggregate"
            /\ i' = 0
            /\ query_data' = Query(p)
            /\ selected_data_embeddings' = <<>>
            /\ selected_data_masks' = <<>>
            /\ entropy_att_scores_list' = <<>>
            /\ log_branch_sel_prob_list' = <<>>
            /\ UNCHANGED outcome
    /\ UNCHANGED <<constructed, branch_factor, mlps, mean_mlp_loss,
                   train_tree_data, training, recorded, last_inference, padded>>

(***************************************************************************)
(* One iteration of the loop of tree_retrieval, lines 304-385.             *)
(*   rand   : torch.rand(B, 1, 2) (line 327)                               *)
(*   sample : the draw of torch.multinomial (line 353)                     *)
(*   f      : the fresh nn.Linear of use_mlps (line 273)                   *)
(***************************************************************************)
LevelStep(rand, sample, f) ==
    /\ pc = "loop"
    /\ LET filtered_tree_data == Tail(train_tree_data) IN
       IF i >= Len(filtered_tree_data) THEN
            \* range(len(filtered_tree_data)) is exhausted (line 304)
            /\ pc' = "aggregate"
            /\ UNCHANGED <<i, query_data, selected_data_embeddings,
                           selected_data_masks, entropy_att_scores_list,
                           log_branch_sel_prob_list, mean_mlp_loss, recorded,
                           outcome>>
       ELSE IF IsLastLevel(i, filtered_tree_data) THEN
            \* lines 310-313: the placeholder pair, then break
            /\ selected_data_embeddings' =
                   Append(selected_data_embeddings, LayerDataEmbeddings)
            /\ selected_data_masks' = Append(selected_data_masks, LayerDataMask)
            /\ pc' = "aggregate"
            /\ UNCHANGED <<i, query_data, entropy_att_scores_list,
                           log_branch_sel_prob_list, mean_mlp_loss, recorded,
                           outcome>>
       ELSE IF i \notin DOMAIN mlps THEN
            \* self.mlps[i] (line 266)
            /\ outcome' = Ended("retrieve", "IndexError", 0)
            /\ ClearCall
            /\ UNCHANGED <<mean_mlp_loss, recorded>>
       ELSE
            LET decision_tensor ==
                    use_mlps(i, query_data, LayerDataEmbeddings, FreshLinear(f))
                level_search_att_weight_mean_nodes ==
                    IF training THEN rand ELSE decision_tensor
                loss == mse_loss(rand, decision_tensor)
                selected_indices ==
                    SelectedIndex(training, level_search_att_weight_mean_nodes, sample)
            IN  /\ IF training
                   THEN /\ mean_mlp_loss' = track_mlp_loss(mean_mlp_loss, i, loss)
                        /\ recorded' = [recorded EXCEPT
                               ![i] = <<@[1] + 1, RatAdd(@[2], loss)>>]
                        /\ entropy_att_scores_list' =
                               Append(entropy_att_scores_list, "entropy")
                        /\ log_branch_sel_prob_list' =
                               Append(log_branch_sel_prob_list,
                                   <<"log", level_search_att_weight_mean_nodes[selected_indices + 1]>>)
                   ELSE UNCHANGED <<mean_mlp_loss, recorded, entropy_att_scores_list,
                                    log_branch_sel_prob_list>>
                /\ selected_data_embeddings' =
                       Append(selected_data_embeddings,
                              <<LayerDataEmbeddings[selected_indices + 1]>>)
                /\ selected_data_masks' =
                       Append(selected_data_masks, <<1 - selected_indices>>)
                /\ i' = i + 1
                /\ UNCHANGED <<pc, query_data, outcome>>
    /\ UNCHANGED <<constructed, branch_factor, mlps, train_tree_data, training,
                   last_inference, padded>>

(***************************************************************************)
(* The end of tree_retrieval, lines 387-411: the selected nodes are        *)
(* concatenated, query_model computes pred_emb, and quit() (line 409)      *)
(* raises SystemExit before the return of line 411.  The exception leaves  *)
(* retrieve as well; the caller may catch it and go on using the instance. *)
(***************************************************************************)
TreeRetrievalFinish ==
    /\ pc = "aggregate"
    /\ IF selected_data_embeddings = <<>>
       THEN \* torch.cat of an empty list
            /\ outcome' = Ended("retrieve", "RuntimeError", 0)
            /\ UNCHANGED last_inference
       ELSE /\ outcome' = Ended("retrieve", "SystemExit", 0)
            /\ last_inference' =
                  IF training THEN last_inference
                  ELSE [valid |-> TRUE,
                        query |-> query_data,
                        tree |-> train_tree_data,
                        embeddings |-> Cat(selected_data_embeddings,
                                           Len(selected_data_embeddings)),
                        masks |-> Cat(selected_data_masks, Len(selected_data_masks))]
    /\ ClearCall
    /\ UNCHANGED <<constructed, branch_factor, mlps, mean_mlp_loss,
                   train_tree_data, training, recorded, padded>>

(***************************************************************************)
(* The specification of the instance's life: construction, setup_data,     *)
(* reset, and retrievals in both modes.                                    *)
(***************************************************************************)
Next ==
    \/ \E b \in 0..MaxB, a \in AggregatorTypes : Construct(b, a, 1)
    \/ \E N \in 1..MaxN : SetupData(N)
    \/ Reset
    \/ \E mode \in BOOLEAN : SetTraining(mode)
    \/ RetrieveBegin(1)
    \/ \E sample \in {0, 1}, f \in {0, 1} : LevelStep(<<1, 2>>, sample, f)
    \/ TreeRetrievalFinish

Spec == Init /\ [][Next]_vars

(***************************************************************************)
(* Inference only: the instance is put in evaluation mode before it is     *)
(* used; the estimators' initial weights, the queries and the fresh linear *)
(* layers vary.                                                            *)
(***************************************************************************)
NextInference ==
    \/ \E b \in 2..MaxB, s \in Seeds : Construct(b, "transformer", s)
    \/ SetTraining(FALSE)
    \/ \E N \in 2..MaxN : ~training /\ SetupData(N)
    \/ ~training /\ Reset
    \/ \E p \in QueryPatterns : ~training /\ RetrieveBegin(p)
    \/ \E f \in FreshPatterns : LevelStep(<<1, 2>>, 0, f)
    \/ TreeRetrievalFinish

SpecInference == Init /\ [][NextInference]_vars

(***************************************************************************)
(* Deep trees: item counts whose tree has as many levels as there are      *)
(* estimators, and more.                                                   *)
(***************************************************************************)
NextDeep ==
    \/ Construct(2, "transformer", 1)
    \/ \E N \in DeepItemCounts : SetupData(N)
    \/ \E mode \in BOOLEAN : SetTraining(mode)
    \/ RetrieveBegin(1)
    \/ \E sample \in {0, 1} : LevelStep(<<1, 2>>, sample, 0)
    \/ TreeRetrievalFinish

SpecDeep == Init /\ [][NextDeep]_vars

(***************************************************************************)
(* pad_node_data as a function of the item count and the branch factor.    *)
(***************************************************************************)
InitPad ==
    /\ InitInstance
    /\ padded \in {[N |-> N, b |-> b, done |-> FALSE, out |-> <<>>] :
                     N \in 1..PadMaxN, b \in 1..PadMaxB}

PadNodeData ==
    /\ ~padded.done
    /\ \E k \in ResolveK(padded.N, padded.b) :
         padded' = [padded EXCEPT !.done = TRUE,
                                  !.out = pad_node_data(padded.N, padded.b, k)]
    /\ UNCHANGED <<constructed, branch_factor, mlps, mean_mlp_loss,
                   train_tree_data, training, call_vars, outcome, recorded,
                   last_inference>>

SpecPad == InitPad /\ [][PadNodeData]_vars

(***************************************************************************)
(* Properties.                                                             *)
(***************************************************************************)
\* k is the floor of log_b(n)
\* b^k, or some number above cap when b^k is above cap
RECURSIVE CappedPow(_, _, _)
CappedPow(b, k, cap) ==
    IF k = 0 THEN 1
    ELSE LET p == CappedPow(b, k - 1, cap) IN IF p > cap THEN p ELSE b * p

IsFloorLog(k, n, b) == CappedPow(b, k, n) <= n /\ n < CappedPow(b, k + 1, n)

\* P is the ceiling of N / g
IsCeilDiv(P, N, g) == (P - 1) * g < N /\ N <= P * g

SetupDataDone ==
    /\ outcome.op = "setup_data"
    /\ outcome.result = "ok"
    /\ outcome.N >= 2
    /\ branch_factor >= 2

InferenceRetrieveEnded ==
    /\ outcome.op = "retrieve"
    /\ ~outcome.training
    /\ outcome.built

\* C1: a retrieve call made in inference mode on a built tree level table
\* ends by returning the retrieved embedding to its caller.
C1_RetrieveReturns ==
    InferenceRetrieveEnded => outcome.result = "returned"

C4_MaskIsOrOfChildren ==
    /\ \A d \in 1..(Len(train_tree_data) - 1) :
          LET parent == train_tree_data[d].mask
              child == train_tree_data[d + 1].mask
              size == Len(child) \div Len(parent)
          IN  /\ Len(child) = size * Len(parent)
              /\ \A g \in 1..Len(parent) :
                    /\ parent[g] \in {0, 1}
                    /\ parent[g] = 1 <=>
                          \E j \in 1..size : child[(g - 1) * size + j] = 1
    /\ train_tree_data # <<>> => train_tree_data[1].mask = <<1>>

C4_Witness ==
    /\ outcome.op = "setup_data"
    /\ outcome.result = "ok"
    /\ \E d \in 2..(Len(train_tree_data) - 1) :
          /\ \E g \in 1..Len(train_tree_data[d].mask) : train_tree_data[d].mask[g] = 0
          /\ \E g \in 1..Len(train_tree_data[d].mask) : train_tree_data[d].mask[g] = 1

\* C5: an inference retrieval that ends with the same query and the same
\* tree level table as the previous inference retrieval has selected the
\* same nodes and the same masks, whatever fresh random parameters were drawn.
C5_InferenceDeterministic ==
    [][ ( /\ pc = "aggregate"
          /\ ~training
          /\ last_inference.valid
          /\ last_inference.query = query_data
          /\ last_inference.tree = train_tree_data
          /\ pc' = "idle" )
        => ( /\ last_inference'.valid
             /\ last_inference'.embeddings = last_inference.embeddings
             /\ last_inference'.masks = last_inference.masks ) ]_vars

C5_Witness ==
    /\ pc = "aggregate"
    /\ ~training
    /\ last_inference.valid
    /\ last_inference.query = query_data
    /\ last_inference.tree = train_tree_data
    /\ Len(selected_data_embeddings) >= 3

\* C6: for every level, the stored statistic is (n, mean of the n recorded
\* losses), whatever setup_data, reset and retrievals took place.
C6_RunningMean ==
    \A l \in Levels :
        /\ mean_mlp_loss[l][1] = recorded[l][1]
        /\ Rat(mean_mlp_loss[l][2][1] * recorded[l][1], mean_mlp_loss[l][2][2])
               = recorded[l][2]

\* two different losses, 5/2 and 41/2, recorded at level 0, one at level 1
C6_Witness ==
    /\ mean_mlp_loss[0] = <<2, <<23, 2>>>>
    /\ mean_mlp_loss[1][1] = 1
    /\ train_tree_data = <<>>
    /\ ~training
    /\ outcome.op = "retrieve"

\* C7: setup_data on a single item with b = 2 does not raise.
C7_SingleItemSetup ==
    (outcome.op = "setup_data" /\ outcome.N = 1 /\ branch_factor = 2) =>
        /\ outcome.result = "ok"
        /\ train_tree_data # <<>>

\* C8: no instance exists whose branch factor is below 2.
C8_ConfigurationChecked ==
    constructed => branch_factor >= 2

\* C9: in tree_retrieval the levels are visited in order; at loop exit the
\* selection path holds one single-node entry per selected level, then the
\* two-slot placeholder; the entropy and log-probability lists hold one
\* entry per selected level while training and are empty at inference.
C9_SelectionPath ==
    /\ pc = "loop" =>
          /\ Len(selected_data_embeddings) = i
          /\ Len(selected_data_masks) = i
          /\ i <= Len(train_tree_data) - 2
    /\ pc = "aggregate" =>
          LET S == Len(selected_data_embeddings) - 1 IN
          /\ S = Len(train_tree_data) - 2
          /\ Len(selected_data_masks) = S + 1
          /\ \A j \in 1..S :
                /\ Len(selected_data_embeddings[j]) = 1
                /\ Len(selected_data_masks[j]) = 1
          /\ Len(selected_data_embeddings[S + 1]) = 2
          /\ Len(selected_data_masks[S + 1]) = 2
          /\ training => /\ Len(entropy_att_scores_list) = S
                         /\ Len(log_branch_sel_prob_list) = S
          /\ ~training => /\ entropy_att_scores_list = <<>>
                          /\ log_branch_sel_prob_list = <<>>

C9_Witness ==
    /\ pc = "aggregate"
    /\ training
    /\ Len(entropy_att_scores_list) = 2
    /\ Len(selected_data_embeddings) = 3

\* C10: every level index at which tree_retrieval invokes the per-level
\* estimator or updates the per-level statistic lies in 0..5.
C10_EstimatorIndexInRange ==
    ( /\ pc = "loop"
      /\ i < Len(Tail(train_tree_data))
      /\ ~IsLastLevel(i, Tail(train_tree_data)) )
    => i \in 0..(NumMlps - 1)

====
